---- MODULE Spec2Model ----
(***************************************************************************)
(* rosman: the per-device reconciliation and backup agent of package       *)
(* mikrotik.  One THost per device; host.Run drives StartManager forever.  *)
(*                                                                         *)
(* A handler of the program is an operator that maps the state of one host *)
(* to the SET of states it can return in: every network operation (a dial, *)
(* a control-plane command, a file-transfer call) either succeeds or       *)
(* returns an error, and the handler's code decides what happens next.     *)
(* The field err of a returned state is TRUE iff the handler returned a    *)
(* non-nil error.                                                          *)
(***************************************************************************)
EXTENDS Integers, Sequences, FiniteSets, TLC

VARIABLES host,     \* the THost records (and the device each one manages)
          initial,  \* the live state of each device when the agent started
          params,   \* the global parameters (the package variable Params)
          call,     \* the last call made (specifications that call handlers)
          ncalls,   \* the number of calls made
          calc,     \* the input and result of GetNextTime (SpecCalc)
          args,     \* the arguments of the calls (SpecImport, SpecTransfer)
          stack     \* the frames of Run on each host's goroutine stack (SpecStack)

vars == <<host, initial, params, call, ncalls, calc, args, stack>>

(***************************************************************************)
(* Bounds of the model.                                                    *)
(***************************************************************************)
MaxCalls == 5       \* calls of the connection manager in SpecConn
MaxNow == 7         \* time.Now().Unix() is read from 0..MaxNow in Spec
MaxCalcNow == 6     \* GetNextTime is applied to now in -MaxCalcNow..MaxCalcNow
MaxCalcStart == 3   \* ... to start in -MaxCalcStart..MaxCalcStart
MaxCalcDelay == 4   \* ... to delay in 1..MaxCalcDelay
MaxAttempts == 4    \* ImportSshKey is called with attempts in 0..MaxAttempts
MaxTransfers == 2   \* calls of DownloadFolder in SpecTransfer
MaxStack == 2       \* frames of Run a goroutine stack holds in SpecStack
MaxArtifacts == 2   \* calls of MakeExport and MakeBackup in SpecArtifact

(***************************************************************************)
(* Helpers on sequences and sets.                                          *)
(***************************************************************************)
Range(f) == {f[i] : i \in DOMAIN f}

Remove(seq, x) == SelectSeq(seq, LAMBDA e : e # x)

\* Go's integer division truncates toward zero (b > 0).
GoDiv(a, b) == IF a >= 0 THEN a \div b ELSE -((-a) \div b)

(***************************************************************************)
(* Declared state (LoadConfig): the fields of a THost that are loaded at   *)
(* start-up.  host.Users and host.Schedules are the declared users and     *)
(* schedules filtered by alias, host.Groups is every declared group.       *)
(***************************************************************************)
Hosts == {"h1"}

\* The hosts of SpecFleet: two devices that declare nothing but the folder.
Fleet == {"h2", "h3"}

\* The global parameters as loaded: the value of dir_backup is a template
\* with the placeholders of the host's name and address.
Params ==
    [dir_backup |-> <<"store", "/", "{host.name}", "/", "{host.ip}">>,
     dir_ssh_pub_keys |-> <<"keys", "/">>,
     dir_scripts |-> <<"scripts", "/">>,
     dir_mikrotik_config |-> <<"configs", "/">>]

\* TParams.GetByName returns a copy of the parameter, or an error.
GetByName(ps, name) ==
    IF name \in DOMAIN ps THEN [err |-> FALSE, Value |-> ps[name]]
    ELSE [err |-> TRUE, Value |-> <<>>]

\* strings.Replace(value, old, new, -1) for a placeholder old.
Replace(value, old, new) ==
    [i \in DOMAIN value |-> IF value[i] = old THEN new ELSE value[i]]

\* The password GeneratePassword writes into the user it is called on.
GeneratedPass == "generated"

LoadConfig(h) ==
    IF h \in Fleet
    THEN [Name |-> h,
          IP |-> "ip-" \o h,
          Login |-> "admin",
          UsersAllowed |-> <<>>,
          BackupFolder |-> <<"backup">>,
          Task |-> [Start |-> 0, Delay |-> 3, Expired |-> 2],
          Users |-> <<>>,
          Groups |-> <<>>,
          Schedules |-> <<>>]
    ELSE [Name |-> h,
          IP |-> "ip-" \o h,
          Login |-> "admin",
          UsersAllowed |-> <<"op">>,
          BackupFolder |-> <<"backup">>,
          Task |-> [Start |-> 0, Delay |-> 3, Expired |-> 2],
          Users |-> <<[Login |-> "u1", Pass |-> "", Key |-> "k1"],
                      [Login |-> "u2", Pass |-> "p2", Key |-> ""]>>,
          Groups |-> <<"g1">>,
          Schedules |-> <<"s1">>]

(***************************************************************************)
(* The log of the network operations a host issued in the current cycle:   *)
(* a history variable, read only by the properties.  An operation that     *)
(* returned an error either met a fault (the network, the peer, the disk)  *)
(* or was rejected because of the state it was applied to.                 *)
(***************************************************************************)
Logged(s, op, arg, ok) ==
    [s EXCEPT !.log = Append(@, [op |-> op, arg |-> arg, ok |-> ok,
                                 rejected |-> FALSE])]

Rejected(s, op, arg) ==
    [s EXCEPT !.log = Append(@, [op |-> op, arg |-> arg, ok |-> FALSE,
                                 rejected |-> TRUE])]

Fail(s) == [s EXCEPT !.err = TRUE]
Ok(s) == [s EXCEPT !.err = FALSE]

(***************************************************************************)
(* The network of a host.  faults = "any": every operation may return an   *)
(* error at any time (this covers a session that broke: each operation on  *)
(* it returns an error).  faults = "break": the only fault is that one     *)
(* connected session breaks during an operation on it; from then on        *)
(* (faults = "none") every dial succeeds and every operation succeeds      *)
(* unless it uses a broken session or the device rejects it.  broken.x is  *)
(* TRUE iff the session the handle x holds is broken.                      *)
(***************************************************************************)
MayFail(s) == s.faults = "any"

\* The file-transfer session runs over the shell session: they break
\* together.
Broken(s, x) ==
    IF x = "sftp"
    THEN [s EXCEPT !.broken.sftp = TRUE, !.broken.ssh = TRUE, !.faults = "none"]
    ELSE [s EXCEPT !.broken[x] = TRUE, !.faults = "none"]

(***************************************************************************)
(* ConnectionManager: tConnections and the three lazy getters.             *)
(* connections.x is TRUE iff the handle is non-nil; open.x counts the      *)
(* sessions of that type that were dialled and not closed.                 *)
(***************************************************************************)
GetConnectionSSH(s) ==
    IF ~s.connections.ssh
    THEN { Ok([Logged(s, "dial-ssh", "", TRUE) EXCEPT
                  !.connections.ssh = TRUE, !.open.ssh = @ + 1,
                  !.broken.ssh = FALSE]) }
         \cup (IF MayFail(s) THEN { Fail(Logged(s, "dial-ssh", "", FALSE)) } ELSE {})
    ELSE { Ok(s) }

NewClientSFTP(s) ==
    IF s.broken.ssh THEN { Fail(Logged(s, "dial-sftp", "", FALSE)) }
    ELSE { Ok([Logged(s, "dial-sftp", "", TRUE) EXCEPT
                  !.connections.sftp = TRUE, !.open.sftp = @ + 1,
                  !.broken.sftp = FALSE]) }
         \cup (IF MayFail(s) THEN { Fail(Logged(s, "dial-sftp", "", FALSE)) } ELSE {})

\* Mutant: the file-transfer session is created without acquiring the shell.
GetConnectionSFTP_NoShell(s) ==
    IF ~s.connections.sftp THEN NewClientSFTP(s) ELSE { Ok(s) }

GetConnectionSFTP(s) ==
    IF ~s.connections.sftp
    THEN UNION { IF t.err THEN {t} ELSE NewClientSFTP(t) : t \in GetConnectionSSH(s) }
    ELSE { Ok(s) }

\* Mutant: the cached handle is not consulted, every acquire dials.
GetConnectionAPI_AlwaysDial(s) ==
    { Ok([Logged(s, "dial-api", "", TRUE) EXCEPT
             !.connections.api = TRUE, !.open.api = @ + 1]),
      Fail(Logged(s, "dial-api", "", FALSE)) }

GetConnectionAPI(s) ==
    IF ~s.connections.api
    THEN { Ok([Logged(s, "dial-api", "", TRUE) EXCEPT
                  !.connections.api = TRUE, !.open.api = @ + 1,
                  !.broken.api = FALSE]) }
         \cup (IF MayFail(s) THEN { Fail(Logged(s, "dial-api", "", FALSE)) } ELSE {})
    ELSE { Ok(s) }

\* Close of one session: the result of Close is ignored by Disconnect.
CloseSession(s, x) ==
    { [Logged(s, "close-" \o x, "", ok) EXCEPT
          !.connections[x] = FALSE, !.open[x] = @ - 1, !.broken[x] = FALSE]
      : ok \in BOOLEAN }

DisconnectOne(S, x) ==
    UNION { IF s.connections[x] THEN CloseSession(s, x) ELSE {s} : s \in S }

\* Mutant: the shell session is left open.
Disconnect_KeepShell(s) ==
    DisconnectOne(DisconnectOne({s}, "api"), "sftp")

\* Mutant: the shell session is closed first.
Disconnect_ShellFirst(s) ==
    DisconnectOne(DisconnectOne(DisconnectOne({s}, "ssh"), "sftp"), "api")

Disconnect(s) ==
    DisconnectOne(DisconnectOne(DisconnectOne({s}, "api"), "sftp"), "ssh")

(***************************************************************************)
(* Sequencing: a handler that returned an error is not continued           *)
(* ("if err != nil { return err }").                                       *)
(***************************************************************************)
Then(S, F(_)) == UNION { IF s.err THEN {s} ELSE F(s) : s \in S }

(***************************************************************************)
(* connApi.Run: a control-plane command either returns an error (the       *)
(* network, or the device rejecting it: accept = FALSE) and leaves the     *)
(* device as it is, or succeeds and leaves the device as in t.  The device *)
(* rejects adding a name it holds and removing a name it does not hold.    *)
(***************************************************************************)
\* The outcomes of an operation on the connected session x.
OnSession(s, x, op, arg, accept, t) ==
    IF s.broken[x] THEN { Fail(Logged(s, op, arg, FALSE)) }
    ELSE IF ~accept THEN { Fail(Rejected(s, op, arg)) }
    ELSE { Ok(Logged(t, op, arg, TRUE)) }
         \cup (IF MayFail(s) THEN { Fail(Logged(s, op, arg, FALSE)) } ELSE {})
         \cup (IF s.faults = "break"
               THEN { Fail(Logged(Broken(s, x), op, arg, FALSE)) } ELSE {})

ApiRun(s, op, arg, accept, t) == OnSession(s, "api", op, arg, accept, t)

\* A call of the file-transfer client or of the local file system.
IsSftp(op) ==
    op \in {"sftp-mkdir", "sftp-create", "sftp-open", "sftp-readdir",
            "sftp-close", "sftp-remove", "io-copy"}

IoCall(s, op, arg, accept, t) ==
    IF IsSftp(op) THEN OnSession(s, "sftp", op, arg, accept, t)
    ELSE IF ~accept THEN { Fail(Rejected(s, op, arg)) }
    ELSE { Ok(Logged(t, op, arg, TRUE)) }
         \cup (IF MayFail(s) THEN { Fail(Logged(s, op, arg, FALSE)) } ELSE {})

GetUsers(s) ==
    Then(GetConnectionAPI(s), LAMBDA t : ApiRun(t, "/user/print", "", TRUE, t))

GetGroups(s) ==
    Then(GetConnectionAPI(s), LAMBDA t : ApiRun(t, "/user/group/print", "", TRUE, t))

GetSchedules(s) ==
    Then(GetConnectionAPI(s), LAMBDA t : ApiRun(t, "/system/scheduler/print", "", TRUE, t))

RemoveUser(s, user) ==
    Then(GetConnectionAPI(s), LAMBDA t :
        ApiRun(t, "/user/remove", user, user \in Range(t.users),
               [t EXCEPT !.users = Remove(@, user), !.keys = @ \ {user},
                         !.passwords = [x \in DOMAIN @ \ {user} |-> @[x]]]))

RemoveGroup(s, group) ==
    Then(GetConnectionAPI(s), LAMBDA t :
        ApiRun(t, "/user/group/remove", group, group \in Range(t.groups),
               [t EXCEPT !.groups = Remove(@, group)]))

RemoveSchedule(s, schedule) ==
    Then(GetConnectionAPI(s), LAMBDA t :
        ApiRun(t, "/system/scheduler/remove", schedule, schedule \in Range(t.schedules),
               [t EXCEPT !.schedules = Remove(@, schedule)]))

\* Mutant: MakeUser works on the declared user, not on a copy of it.
MakeUser_WriteBack(s, user) ==
    LET u == IF user.Pass = "" THEN [user EXCEPT !.Pass = GeneratedPass] ELSE user
        w == [s EXCEPT !.Users = [i \in DOMAIN @ |->
                                     IF @[i].Login = u.Login THEN u ELSE @[i]]]
    IN Then(GetConnectionAPI(w), LAMBDA t :
        ApiRun(t, "/user/add", u.Login, u.Login \notin Range(t.users),
               [t EXCEPT !.users = Append(@, u.Login),
                         !.passwords = (u.Login :> u.Pass) @@ @]))

\* MakeUser receives the user by value: the generated password is set on
\* that copy (u) and sent to the device; the declared user keeps Pass = "".
MakeUser(s, user) ==
    LET u == IF user.Pass = "" THEN [user EXCEPT !.Pass = GeneratedPass] ELSE user
    IN Then(GetConnectionAPI(s), LAMBDA t :
        ApiRun(t, "/user/add", u.Login, u.Login \notin Range(t.users),
               [t EXCEPT !.users = Append(@, u.Login),
                         !.passwords = (u.Login :> u.Pass) @@ @]))

MakeGroup(s, group) ==
    Then(GetConnectionAPI(s), LAMBDA t :
        ApiRun(t, "/user/group/add", group, group \notin Range(t.groups),
               [t EXCEPT !.groups = Append(@, group)]))

MakeSchedule(s, schedule) ==
    Then(GetConnectionAPI(s), LAMBDA t :
        ApiRun(t, "/system/scheduler/add", schedule, schedule \notin Range(t.schedules),
               [t EXCEPT !.schedules = Append(@, schedule)]))

(***************************************************************************)
(* IsContainUser / IsContainGroup / IsContainSchedule: pairs <<state,      *)
(* result>>; a failed query answers false.                                 *)
(***************************************************************************)
IsContainUser(s, user) ==
    { <<t, (~t.err) /\ user.Login \in Range(t.users)>> : t \in GetUsers(s) }

IsContainGroup(s, group) ==
    { <<t, (~t.err) /\ group \in Range(t.groups)>> : t \in GetGroups(s) }

IsContainSchedule(s, schedule) ==
    { <<t, (~t.err) /\ schedule \in Range(t.schedules)>> : t \in GetSchedules(s) }

\* TListOfStrings.IsContain, TGroups.IsContain, TSchedules.IsContain
IsContain(list, name) == \E i \in 1..Len(list) : list[i] = name

\* Mutant: the declared users' logins are left out of the allow-list.
GetUsersAllowed_NoDeclared(s) == <<s.Login>> \o s.UsersAllowed

GetUsersAllowed(s) ==
    <<s.Login>> \o s.UsersAllowed \o [i \in 1..Len(s.Users) |-> s.Users[i].Login]

(***************************************************************************)
(* ReconciliationEngine: the clean handlers.                               *)
(***************************************************************************)
RECURSIVE CleanUsersLoop(_, _, _, _)
CleanUsersLoop(s, users, i, usersPass) ==
    IF i > Len(users) THEN { Ok(s) }
    ELSE IF ~IsContain(usersPass, users[i])
         THEN Then(RemoveUser(s, users[i]),
                   LAMBDA t : CleanUsersLoop(t, users, i + 1, usersPass))
         ELSE CleanUsersLoop(s, users, i + 1, usersPass)

CleanUsers(s) ==
    Then(GetUsers(s), LAMBDA t : CleanUsersLoop(t, t.users, 1, GetUsersAllowed(s)))

RECURSIVE CleanGroupsLoop(_, _, _)
CleanGroupsLoop(s, groups, i) ==
    IF i > Len(groups) THEN { Ok(s) }
    ELSE IF ~IsContain(s.Groups, groups[i])
         THEN Then(RemoveGroup(s, groups[i]),
                   LAMBDA t : CleanGroupsLoop(t, groups, i + 1))
         ELSE CleanGroupsLoop(s, groups, i + 1)

CleanGroups(s) ==
    Then(GetGroups(s), LAMBDA t : CleanGroupsLoop(t, t.groups, 1))

RECURSIVE CleanSchedulesLoop(_, _, _)
CleanSchedulesLoop(s, schedules, i) ==
    IF i > Len(schedules) THEN { Ok(s) }
    ELSE IF ~IsContain(s.Schedules, schedules[i])
         THEN Then(RemoveSchedule(s, schedules[i]),
                   LAMBDA t : CleanSchedulesLoop(t, schedules, i + 1))
         ELSE CleanSchedulesLoop(s, schedules, i + 1)

CleanSchedules(s) ==
    Then(GetSchedules(s), LAMBDA t : CleanSchedulesLoop(t, t.schedules, 1))

(***************************************************************************)
(* Key provisioning.  files[key] is the state of the key file on the       *)
(* device: "none", "partial" (created, not fully written) or "full".       *)
(* The device imports a key for a user it holds from a fully written file  *)
(* and consumes the file.                                                  *)
(***************************************************************************)
ImportAttempts == 10
ImportDelay == 5000

UploadKey(s, key) ==
    Then(GetConnectionSFTP(s), LAMBDA a :
    Then(IoCall(a, "sftp-create", key, TRUE, [a EXCEPT !.files[key] = "partial"]), LAMBDA b :
    IF GetByName(params, "dir_ssh_pub_keys").err THEN { Fail(b) }
    ELSE
    Then(IoCall(b, "os-open", key, TRUE, b), LAMBDA c :
         IoCall(c, "io-copy", key, TRUE, [c EXCEPT !.files[key] = "full"]))))

\* Mutant: the loop runs one attempt more ("i <= attempts + 1").
RECURSIVE ImportSshKeyLoop_ExtraAttempt(_, _, _, _, _)
ImportSshKeyLoop_ExtraAttempt(s, user, delay, attempts, i) ==
    IF i > attempts + 1 THEN { Fail(s) }
    ELSE Then(GetConnectionAPI(s), LAMBDA a :
         UNION { IF b.err
                 THEN ImportSshKeyLoop_ExtraAttempt(b, user, delay, attempts, i + 1)
                 ELSE { b }
                 : b \in ApiRun(Logged(a, "sleep", ToString(delay), TRUE),
                                "/user/ssh-keys/import", user.Login,
                                a.files[user.Key] = "full" /\ user.Login \in Range(a.users),
                                [Logged(a, "sleep", ToString(delay), TRUE) EXCEPT
                                    !.keys = @ \cup {user.Login},
                                    !.files[user.Key] = "none"]) })

\* Mutant: a failed import returns its error ("return err" for "continue").
ImportSshKeyLoop_StopOnError(s, user, delay, attempts, i) ==
    IF i > attempts THEN { Fail(s) }
    ELSE Then(GetConnectionAPI(s), LAMBDA a :
              ApiRun(Logged(a, "sleep", ToString(delay), TRUE),
                     "/user/ssh-keys/import", user.Login,
                     a.files[user.Key] = "full" /\ user.Login \in Range(a.users),
                     [Logged(a, "sleep", ToString(delay), TRUE) EXCEPT
                         !.keys = @ \cup {user.Login},
                         !.files[user.Key] = "none"]))

RECURSIVE ImportSshKeyLoop(_, _, _, _, _)
ImportSshKeyLoop(s, user, delay, attempts, i) ==
    IF i > attempts THEN { Fail(s) }
    ELSE Then(GetConnectionAPI(s), LAMBDA a :
         UNION { IF b.err THEN ImportSshKeyLoop(b, user, delay, attempts, i + 1)
                 ELSE { b }
                 : b \in ApiRun(Logged(a, "sleep", ToString(delay), TRUE),
                                "/user/ssh-keys/import", user.Login,
                                a.files[user.Key] = "full" /\ user.Login \in Range(a.users),
                                [Logged(a, "sleep", ToString(delay), TRUE) EXCEPT
                                    !.keys = @ \cup {user.Login},
                                    !.files[user.Key] = "none"]) })

ImportSshKey(s, user, delay, attempts) ==
    ImportSshKeyLoop(s, user, delay, attempts, 1)

(***************************************************************************)
(* ReconciliationEngine: the add handlers.                                 *)
(***************************************************************************)
RECURSIVE AddUsersLoop(_, _)
AddUsersLoop(s, i) ==
    IF i > Len(s.Users) THEN { Ok(s) }
    ELSE UNION {
        IF p[2] THEN AddUsersLoop(p[1], i + 1)               \* already contains
        ELSE UNION {
            IF t.err THEN AddUsersLoop(t, i + 1)             \* logged, continue
            ELSE IF s.Users[i].Key # ""
                 THEN Then(Then(UploadKey(t, s.Users[i].Key),
                                LAMBDA u : ImportSshKey(u, s.Users[i], ImportDelay, ImportAttempts)),
                           LAMBDA v : AddUsersLoop(v, i + 1))
                 ELSE AddUsersLoop(t, i + 1)
            : t \in MakeUser(p[1], s.Users[i]) }
        : p \in IsContainUser(s, s.Users[i]) }

AddUsers(s) == AddUsersLoop(s, 1)

RECURSIVE AddGroupsLoop(_, _)
AddGroupsLoop(s, i) ==
    IF i > Len(s.Groups) THEN { Ok(s) }
    ELSE UNION {
        IF p[2] THEN AddGroupsLoop(p[1], i + 1)
        ELSE Then(MakeGroup(p[1], s.Groups[i]), LAMBDA t : AddGroupsLoop(t, i + 1))
        : p \in IsContainGroup(s, s.Groups[i]) }

AddGroups(s) == AddGroupsLoop(s, 1)

RECURSIVE AddSchedulesLoop(_, _)
AddSchedulesLoop(s, i) ==
    IF i > Len(s.Schedules) THEN { Ok(s) }
    ELSE UNION {
        IF p[2] THEN AddSchedulesLoop(p[1], i + 1)
        ELSE Then(MakeSchedule(p[1], s.Schedules[i]), LAMBDA t : AddSchedulesLoop(t, i + 1))
        : p \in IsContainSchedule(s, s.Schedules[i]) }

AddSchedules(s) == AddSchedulesLoop(s, 1)

(***************************************************************************)
(* Paths.  A Go string that holds a path is a sequence of tokens, each     *)
(* the separator "/" or a piece of text without one, and "+" on strings is *)
(* \o.  Str is the text of a string.  A path is resolved element by        *)
(* element: the text between two separators is one element, empty elements *)
(* and "." are skipped, and a leading separator is not told apart (the     *)
(* session and the process start at the root).                             *)
(***************************************************************************)
RECURSIVE Str(_)
Str(p) == IF p = <<>> THEN "" ELSE Head(p) \o Str(Tail(p))

RECURSIVE Elements(_, _)
Elements(p, cur) ==
    IF p = <<>> THEN (IF cur = "" THEN <<>> ELSE <<cur>>)
    ELSE IF Head(p) = "/"
         THEN (IF cur = "" THEN <<>> ELSE <<cur>>) \o Elements(Tail(p), "")
         ELSE Elements(Tail(p), cur \o Head(p))

Split(p) == Elements(p, "")

Resolve(p) == SelectSeq(Split(p), LAMBDA x : x # ".")

RECURSIVE Joined(_)
Joined(e) ==
    IF e = <<>> THEN <<>>
    ELSE IF Len(e) = 1 THEN <<e[1]>>
    ELSE <<e[1], "/">> \o Joined(Tail(e))

\* filepath.Base and filepath.ToSlash(filepath.Dir(...)).
Base(p) == IF Split(p) = <<>> THEN "." ELSE Split(p)[Len(Split(p))]

Dir(p) ==
    IF Len(Split(p)) <= 1 THEN <<".">>
    ELSE Joined(SubSeq(Split(p), 1, Len(Split(p)) - 1))

(***************************************************************************)
(* BackupTransfer.  The files of the device are tree: the set of entries   *)
(* [path, isDir], path being the sequence of the entry's elements from the *)
(* root.  local maps the elements of a local file's path to the remote     *)
(* file it was copied from and to "partial" (created, not fully written)   *)
(* or "full".                                                              *)
(***************************************************************************)
\* Every name of a remote entry, in the order of ReadDir (sorted by name).
FileNames == <<"a", "ab", "b", "backup", "cfg.backup", "cfg.rsc", "f1", "f2">>

IsRemoteDir(s, p) ==
    Resolve(p) = <<>> \/ [path |-> Resolve(p), isDir |-> TRUE] \in s.tree

IsRemoteFile(s, p) == [path |-> Resolve(p), isDir |-> FALSE] \in s.tree

\* connSftp.ReadDir: the entries of a directory, sorted by name.
ReadDir(s, p) ==
    LET r == Resolve(p)
        children == { e \in s.tree : /\ Len(e.path) = Len(r) + 1
                                     /\ SubSeq(e.path, 1, Len(r)) = r }
        names == SelectSeq(FileNames,
                           LAMBDA n : \E e \in children : e.path[Len(e.path)] = n)
    IN [i \in 1..Len(names) |->
           LET e == CHOOSE e \in children : e.path[Len(e.path)] = names[i]
           IN [name |-> names[i], isDir |-> e.isDir]]

\* connSftp.MkdirAll creates the directory and its missing parents.
MakeDir(s, dir) ==
    Then(GetConnectionSFTP(s), LAMBDA t :
         LET r == Resolve(dir)
             parents == { SubSeq(r, 1, k) : k \in 1..Len(r) }
         IN IoCall(t, "sftp-mkdir", Str(dir),
                   \A q \in parents : [path |-> q, isDir |-> FALSE] \notin t.tree,
                   [t EXCEPT !.tree = @ \cup { [path |-> q, isDir |-> TRUE]
                                               : q \in parents }]))

MakeBackupFolder(s) ==
    IF s.BackupFolder # <<>> THEN MakeDir(s, s.BackupFolder) ELSE { Ok(s) }

\* The entry of the file the device writes for a command given the name
\* path: the device appends the suffix of the command to the name.
Artifact(path, suffix) ==
    LET r == Resolve(path)
    IN [path |-> IF r = <<>> THEN <<suffix>>
                 ELSE SubSeq(r, 1, Len(r) - 1) \o <<r[Len(r)] \o suffix>>,
        isDir |-> FALSE]

\* Mutant: the error of MakeDir is dropped and the command is issued.
MakeExport_IgnoreMakeDir(s, path) ==
    LET dir == Dir(path)
        p == dir \o <<"/", Base(path)>>
        done == UNION { Then(GetConnectionAPI(Ok(a)), LAMBDA b :
                            ApiRun(b, "/export", Str(p), TRUE,
                                   [b EXCEPT !.tree = @ \cup {Artifact(p, ".rsc")}]))
                        : a \in MakeDir(s, dir) }
    IN { IF t.err THEN [t EXCEPT !.ret = <<>>] ELSE [t EXCEPT !.ret = p \o <<".rsc">>]
         : t \in done }

\* ret is the path MakeExport and MakeBackup return ("" with an error).
MakeExport(s, path) ==
    LET dir == Dir(path)
        p == dir \o <<"/", Base(path)>>
        done == Then(Then(MakeDir(s, dir), LAMBDA a : GetConnectionAPI(a)), LAMBDA b :
                     ApiRun(b, "/export", Str(p), TRUE,
                            [b EXCEPT !.tree = @ \cup {Artifact(p, ".rsc")}]))
    IN { IF t.err THEN [t EXCEPT !.ret = <<>>] ELSE [t EXCEPT !.ret = p \o <<".rsc">>]
         : t \in done }

MakeBackup(s, path) ==
    LET dir == Dir(path)
        p == dir \o <<"/", Base(path)>>
        done == Then(Then(MakeDir(s, dir), LAMBDA a : GetConnectionAPI(a)), LAMBDA b :
                     ApiRun(b, "/system/backup/save", Str(p), TRUE,
                            [b EXCEPT !.tree = @ \cup {Artifact(p, ".backup")}]))
    IN { IF t.err THEN [t EXCEPT !.ret = <<>>] ELSE [t EXCEPT !.ret = p \o <<".backup">>]
         : t \in done }

\* Mutant: the remote file is removed whatever the flag says.
DownloadFile_AlwaysRemove(s, pathSrc, dirDst, delete) ==
    LET file == Base(pathSrc)
        src == Dir(pathSrc) \o <<"/", file>>
        pathDst == dirDst \o <<"/", file>>
    IN
    Then(GetConnectionSFTP(s), LAMBDA a :
    Then(IoCall(a, "sftp-open", Str(src), IsRemoteFile(a, src), a), LAMBDA b :
    Then(IoCall(b, "os-mkdir", Str(dirDst), TRUE, b), LAMBDA c :
    Then(IoCall(c, "os-create", Str(pathDst), TRUE,
                [c EXCEPT !.local = (Resolve(pathDst) :>
                      [from |-> Resolve(src), state |-> "partial"]) @@ @]), LAMBDA d :
    Then(IoCall(d, "io-copy", Str(pathDst), TRUE,
                [d EXCEPT !.local = (Resolve(pathDst) :>
                      [from |-> Resolve(src), state |-> "full"]) @@ @]), LAMBDA e :
    Then(IoCall(e, "os-sync", Str(pathDst), TRUE, e), LAMBDA f :
    Then(IoCall(f, "sftp-close", Str(src), TRUE, f), LAMBDA g :
    Then(IoCall(g, "sftp-remove", Str(src), IsRemoteFile(g, src),
                [g EXCEPT !.tree = @ \ {[path |-> Resolve(src), isDir |-> FALSE]}]),
         LAMBDA k :
         IoCall(k, "os-close", Str(pathDst), TRUE, k)))))))))

DownloadFile(s, pathSrc, dirDst, delete) ==
    LET file == Base(pathSrc)
        src == Dir(pathSrc) \o <<"/", file>>
        pathDst == dirDst \o <<"/", file>>
    IN
    Then(GetConnectionSFTP(s), LAMBDA a :
    Then(IoCall(a, "sftp-open", Str(src), IsRemoteFile(a, src), a), LAMBDA b :
    Then(IoCall(b, "os-mkdir", Str(dirDst), TRUE, b), LAMBDA c :
    Then(IoCall(c, "os-create", Str(pathDst), TRUE,
                [c EXCEPT !.local = (Resolve(pathDst) :>
                      [from |-> Resolve(src), state |-> "partial"]) @@ @]), LAMBDA d :
    Then(IoCall(d, "io-copy", Str(pathDst), TRUE,
                [d EXCEPT !.local = (Resolve(pathDst) :>
                      [from |-> Resolve(src), state |-> "full"]) @@ @]), LAMBDA e :
    Then(IoCall(e, "os-sync", Str(pathDst), TRUE, e), LAMBDA f :
    Then(IoCall(f, "sftp-close", Str(src), TRUE, f), LAMBDA g :
    Then(IF delete
         THEN IoCall(g, "sftp-remove", Str(src), IsRemoteFile(g, src),
                     [g EXCEPT !.tree = @ \ {[path |-> Resolve(src), isDir |-> FALSE]}])
         ELSE { g }, LAMBDA k :
         IoCall(k, "os-close", Str(pathDst), TRUE, k)))))))))

\* The recursion into a sub-directory appends the entry's name to both
\* paths as it is, without a separator.
RECURSIVE DownloadFolder(_, _, _, _)
RECURSIVE DownloadFolderLoop(_, _, _, _, _, _)
DownloadFolderLoop(s, files, i, dirSrc, dirDst, delete) ==
    IF i > Len(files) THEN { Ok(s) }
    ELSE Then(IF files[i].isDir
              THEN DownloadFolder(s, dirSrc \o <<files[i].name>>,
                                  dirDst \o <<files[i].name>>, delete)
              ELSE DownloadFile(s, dirSrc \o <<"/", files[i].name>>, dirDst, delete),
              LAMBDA t : DownloadFolderLoop(t, files, i + 1, dirSrc, dirDst, delete))

DownloadFolder(s, dirSrc, dirDst, delete) ==
    Then(GetConnectionSFTP(s), LAMBDA a :
    Then(IoCall(a, "sftp-readdir", Str(dirSrc), IsRemoteDir(a, dirSrc), a), LAMBDA b :
         DownloadFolderLoop(b, ReadDir(b, dirSrc), 1, dirSrc, dirDst, delete)))

(***************************************************************************)
(* DeviceScheduler.                                                        *)
(***************************************************************************)
\* Mutant: the "+ 1" is lost.
NextTime_NoNext(now, start, delay) == GoDiv(now - start, delay) * delay + start

NextTime(now, start, delay) == (GoDiv(now - start, delay) + 1) * delay + start

GetNextTime(s, now) == NextTime(now, s.Task.Start, s.Task.Delay)

(***************************************************************************)
(* The live state of a device when the agent starts.                       *)
(***************************************************************************)
KeyFiles == {"k1"}

Devices ==
    { \* a fresh device
      [users |-> <<"admin">>, groups |-> <<>>, schedules |-> <<>>,
       tree |-> {}],
      \* a device holding entries that are not declared
      [users |-> <<"admin", "x", "op">>, groups |-> <<"gx">>, schedules |-> <<"sx">>,
       tree |-> {[path |-> <<"backup">>, isDir |-> TRUE],
                 [path |-> <<"backup", "f1">>, isDir |-> FALSE]}],
      \* a device holding the declared user and group already
      [users |-> <<"admin", "u1">>, groups |-> <<"g1">>, schedules |-> <<>>,
       tree |-> {[path |-> <<"backup">>, isDir |-> TRUE],
                 [path |-> <<"backup", "f1">>, isDir |-> FALSE]}] }

NewHost(h, dev) ==
    LoadConfig(h) @@ dev @@
    [keys |-> {},
     files |-> [k \in KeyFiles |-> "none"],
     dirBackup |-> <<>>,
     ret |-> <<>>,
     passwords |-> <<>>,
     local |-> <<>>,
     connections |-> [api |-> FALSE, sftp |-> FALSE, ssh |-> FALSE],
     broken |-> [api |-> FALSE, sftp |-> FALSE, ssh |-> FALSE],
     faults |-> "any",
     open |-> [api |-> 0, sftp |-> 0, ssh |-> 0],
     log |-> <<>>,
     steps |-> <<>>,
     err |-> FALSE,
     pc |-> "Run",
     delay |-> 0, next |-> 0, now |-> 0,
     aborted |-> FALSE]

NoCalc == [now |-> 0, start |-> 0, delay |-> 1, next |-> 0, done |-> FALSE]

NoArgs == [none |-> TRUE]

Init ==
    /\ initial \in [Hosts -> Devices]
    /\ host = [h \in Hosts |-> NewHost(h, initial[h])]
    /\ params = Params
    /\ call = "none"
    /\ ncalls = 0
    /\ calc = NoCalc
    /\ args = NoArgs
    /\ stack = [h \in Hosts |-> 1]

(***************************************************************************)
(* host.Run and host.StartManager, one action per step of the cycle.       *)
(* A step that returns an error ends StartManager; Run then sleeps for     *)
(* Task.Expired.  After the last step StartManager disconnects and Run     *)
(* sleeps until GetNextTime().                                             *)
(* steps is the history of the steps of the current cycle: the name of     *)
(* each step that was started and whether it returned success.             *)
(***************************************************************************)
\* Mutant: the error of a step is dropped, StartManager goes on.
Return_IgnoreError(t, pcNext) == [t EXCEPT !.pc = pcNext]

\* Mutant: after an error Run sleeps for the Task's period.
Return_NoBackoff(t, pcNext) ==
    IF t.err
    THEN [t EXCEPT !.pc = "Sleep", !.delay = t.Task.Delay, !.aborted = TRUE]
    ELSE [t EXCEPT !.pc = pcNext]

Return(t, pcNext) ==
    IF t.err
    THEN [t EXCEPT !.pc = "Sleep", !.delay = t.Task.Expired, !.aborted = TRUE]
    ELSE [t EXCEPT !.pc = pcNext]

Started(t, name) ==
    IF name = "Run" THEN t
    ELSE [t EXCEPT !.steps = Append(@, [name |-> name, ok |-> ~t.err])]

\* Mutant: the connection handles are one value shared by all hosts.
Step_SharedConnections(h, pcNow, outcomes, pcNext) ==
    /\ host[h].pc = pcNow
    /\ \E t \in outcomes :
          host' = [g \in DOMAIN host |->
                      IF g = h THEN Return(Started(t, pcNow), pcNext)
                      ELSE [host[g] EXCEPT !.connections = t.connections]]
    /\ UNCHANGED <<initial, params, call, ncalls, calc, args, stack>>

Step(h, pcNow, outcomes, pcNext) ==
    /\ host[h].pc = pcNow
    /\ \E t \in outcomes :
          host' = [host EXCEPT ![h] = Return(Started(t, pcNow), pcNext)]
    /\ UNCHANGED <<initial, params, call, ncalls, calc, args, stack>>

\* The head of StartManager: dir is a copy of the parameter dir_backup, the
\* placeholders are replaced in the copy (kept in the field dirBackup).
Substituted(s, ps) ==
    LET dir == GetByName(ps, "dir_backup")
    IN IF dir.err THEN Fail(s)
       ELSE Ok([s EXCEPT !.dirBackup =
                   Replace(Replace(dir.Value, "{host.name}", s.Name),
                           "{host.ip}", s.IP)])

\* Mutant: dir is the parameter itself, the replaced value is stored in it.
StartManager_WriteBack(h) ==
    /\ host[h].pc = "Run"
    /\ host' = [host EXCEPT ![h] = Return(Substituted(host[h], params), "CleanUsers")]
    /\ params' = IF host'[h].err THEN params
                 ELSE [params EXCEPT !.dir_backup = host'[h].dirBackup]
    /\ UNCHANGED <<initial, call, ncalls, calc, args, stack>>

StartManager(h) ==
    /\ host[h].pc = "Run"
    /\ host' = [host EXCEPT ![h] = Return(Substituted(host[h], params), "CleanUsers")]
    /\ UNCHANGED <<initial, params, call, ncalls, calc, args, stack>>

DoCleanUsers(h) == Step(h, "CleanUsers", CleanUsers(host[h]), "CleanGroups")

DoCleanGroups(h) == Step(h, "CleanGroups", CleanGroups(host[h]), "CleanSchedules")

DoCleanSchedules(h) == Step(h, "CleanSchedules", CleanSchedules(host[h]), "AddGroups")

\* Mutant: the groups are followed by the schedules.
DoAddGroups_ThenSchedules(h) ==
    Step(h, "AddGroups", AddGroups(host[h]), "AddSchedules")

DoAddGroups(h) == Step(h, "AddGroups", AddGroups(host[h]), "AddUsers")

DoAddUsers(h) == Step(h, "AddUsers", AddUsers(host[h]), "MakeBackupFolder")

DoMakeBackupFolder(h) ==
    Step(h, "MakeBackupFolder", MakeBackupFolder(host[h]), "AddSchedules")

DoAddSchedules(h) == Step(h, "AddSchedules", AddSchedules(host[h]), "DownloadFolder")

\* The last step, host.Disconnect(), and Run's choice of the sleep: the
\* clock is read in GetNextTime (t1) and again by Run (t2).
DoDownloadFolder(h) ==
    /\ host[h].pc = "DownloadFolder"
    /\ \E t \in DownloadFolder(host[h], host[h].BackupFolder, host[h].dirBackup, TRUE) :
          IF t.err
          THEN host' = [host EXCEPT ![h] =
                           Return(Started(t, "DownloadFolder"), "Sleep")]
          ELSE \E d \in Disconnect(Started(t, "DownloadFolder")),
                  t1 \in 0..MaxNow, t2 \in {0, 1} :
                  host' = [host EXCEPT ![h] =
                              [d EXCEPT !.pc = "Sleep",
                                        !.next = GetNextTime(d, t1),
                                        !.now = t1 + t2,
                                        !.delay = GetNextTime(d, t1) - (t1 + t2)]]
    /\ UNCHANGED <<initial, params, call, ncalls, calc, args, stack>>

\* time.Sleep returns and Run calls itself.
Run(h) ==
    /\ host[h].pc = "Sleep"
    /\ host' = [host EXCEPT ![h] =
                   [@ EXCEPT !.pc = "Run", !.log = <<>>, !.steps = <<>>,
                             !.err = FALSE,
                             !.delay = 0, !.next = 0, !.now = 0]]
    /\ UNCHANGED <<initial, params, call, ncalls, calc, args, stack>>

Next ==
    \E h \in Hosts :
        \/ StartManager(h)
        \/ DoCleanUsers(h)
        \/ DoCleanGroups(h)
        \/ DoCleanSchedules(h)
        \/ DoAddGroups(h)
        \/ DoAddUsers(h)
        \/ DoMakeBackupFolder(h)
        \/ DoAddSchedules(h)
        \/ DoDownloadFolder(h)
        \/ Run(h)

Spec == Init /\ [][Next]_vars

(***************************************************************************)
(* SpecFleet: main starts one goroutine per host ("go host.Run()"); the    *)
(* cycles of the hosts of Fleet interleave step by step.                   *)
(***************************************************************************)
InitFleet ==
    /\ initial \in [Fleet -> { [users |-> <<"admin">>, groups |-> <<>>,
                                schedules |-> <<>>, tree |-> {}] }]
    /\ host = [h \in Fleet |-> NewHost(h, initial[h])]
    /\ params = Params
    /\ call = "none"
    /\ ncalls = 0
    /\ calc = NoCalc
    /\ args = NoArgs
    /\ stack = [h \in Fleet |-> 1]

NextFleet ==
    \E h \in Fleet :
        \/ StartManager(h)
        \/ DoCleanUsers(h)
        \/ DoCleanGroups(h)
        \/ DoCleanSchedules(h)
        \/ DoAddGroups(h)
        \/ DoAddUsers(h)
        \/ DoMakeBackupFolder(h)
        \/ DoAddSchedules(h)
        \/ DoDownloadFolder(h)
        \/ Run(h)

SpecFleet == InitFleet /\ [][NextFleet]_vars

(***************************************************************************)
(* SpecRecover: the cycle of one host of Fleet on a network whose only     *)
(* fault is that one connected session breaks during an operation; every   *)
(* later dial succeeds and so does every operation on a session that is    *)
(* not broken.  Every step of a cycle and every sleep returns (weak        *)
(* fairness); the stack is taken as unbounded.                             *)
(***************************************************************************)
Recovering == {"h2"}

InitRecover ==
    /\ initial \in [Recovering -> { [users |-> <<"admin">>, groups |-> <<>>,
                                     schedules |-> <<>>, tree |-> t]
                                    : t \in { {},
                                              {[path |-> <<"backup">>, isDir |-> TRUE],
                                               [path |-> <<"backup", "f1">>,
                                                isDir |-> FALSE]} } }]
    /\ host = [h \in Recovering |->
                   [NewHost(h, initial[h]) EXCEPT !.faults = "break"]]
    /\ params = Params
    /\ call = "none"
    /\ ncalls = 0
    /\ calc = NoCalc
    /\ args = NoArgs
    /\ stack = [h \in Recovering |-> 1]

NextRecover ==
    \E h \in Recovering :
        \/ StartManager(h)
        \/ DoCleanUsers(h)
        \/ DoCleanGroups(h)
        \/ DoCleanSchedules(h)
        \/ DoAddGroups(h)
        \/ DoAddUsers(h)
        \/ DoMakeBackupFolder(h)
        \/ DoAddSchedules(h)
        \/ DoDownloadFolder(h)
        \/ Run(h)

SpecRecover == InitRecover /\ [][NextRecover]_vars /\ WF_vars(NextRecover)

(***************************************************************************)
(* SpecStack: the cycle with the goroutine stacks.  Run does not loop, it  *)
(* ends with a call of itself, and a call that is the last statement of a  *)
(* Go function still keeps the caller's frame: every cycle leaves one more *)
(* frame of Run on the stack of the host's goroutine.  Spec takes the      *)
(* stack as unbounded; here it holds MaxStack frames of Run (the runtime's *)
(* limit scaled down), and the call that exceeds it is the runtime's fatal *)
(* stack overflow, which ends the process and so every host's goroutine.   *)
(* Every step of a cycle and every sleep returns (weak fairness).          *)
(***************************************************************************)
RunCall(h) ==
    /\ host[h].pc = "Sleep"
    /\ stack[h] < MaxStack
    /\ host' = [host EXCEPT ![h] =
                   [@ EXCEPT !.pc = "Run", !.log = <<>>, !.steps = <<>>,
                             !.err = FALSE,
                             !.delay = 0, !.next = 0, !.now = 0]]
    /\ stack' = [stack EXCEPT ![h] = @ + 1]
    /\ UNCHANGED <<initial, params, call, ncalls, calc, args>>

StackOverflow(h) ==
    /\ host[h].pc = "Sleep"
    /\ stack[h] = MaxStack
    /\ host' = [g \in Hosts |-> [host[g] EXCEPT !.pc = "Fatal"]]
    /\ UNCHANGED <<initial, params, call, ncalls, calc, args, stack>>

NextStack ==
    \E h \in Hosts :
        \/ StartManager(h)
        \/ DoCleanUsers(h)
        \/ DoCleanGroups(h)
        \/ DoCleanSchedules(h)
        \/ DoAddGroups(h)
        \/ DoAddUsers(h)
        \/ DoMakeBackupFolder(h)
        \/ DoAddSchedules(h)
        \/ DoDownloadFolder(h)
        \/ RunCall(h)
        \/ StackOverflow(h)

SpecStack == Init /\ [][NextStack]_vars /\ WF_vars(NextStack)

(***************************************************************************)
(* SpecConn: the connection manager of one host under any sequence of its  *)
(* four calls.  call names the last call made.                             *)
(***************************************************************************)
Call(h, name, outcomes) ==
    /\ ncalls < MaxCalls
    /\ \E t \in outcomes : host' = [host EXCEPT ![h] = t]
    /\ call' = name
    /\ ncalls' = ncalls + 1
    /\ UNCHANGED <<initial, params, calc, args, stack>>

CallGetConnectionAPI(h) == Call(h, "GetConnectionAPI", GetConnectionAPI(host[h]))

CallGetConnectionSSH(h) == Call(h, "GetConnectionSSH", GetConnectionSSH(host[h]))

CallGetConnectionSFTP(h) == Call(h, "GetConnectionSFTP", GetConnectionSFTP(host[h]))

CallDisconnect(h) == Call(h, "Disconnect", Disconnect(host[h]))

NextConn ==
    \E h \in Hosts :
        \/ CallGetConnectionAPI(h)
        \/ CallGetConnectionSSH(h)
        \/ CallGetConnectionSFTP(h)
        \/ CallDisconnect(h)

SpecConn == Init /\ [][NextConn]_vars

(***************************************************************************)
(* SpecCalc: GetNextTime applied to a clock reading and a task.            *)
(***************************************************************************)
InitCalc ==
    /\ initial \in [Hosts -> Devices]
    /\ host = [h \in Hosts |-> NewHost(h, initial[h])]
    /\ params = Params
    /\ call = "none"
    /\ ncalls = 0
    /\ calc \in [now : -MaxCalcNow..MaxCalcNow,
                 start : -MaxCalcStart..MaxCalcStart,
                 delay : 1..MaxCalcDelay,
                 next : {0},
                 done : {FALSE}]
    /\ args = NoArgs
    /\ stack = [h \in Hosts |-> 1]

CallGetNextTime ==
    /\ ~calc.done
    /\ calc' = [calc EXCEPT !.next = NextTime(calc.now, calc.start, calc.delay),
                            !.done = TRUE]
    /\ UNCHANGED <<host, initial, params, call, ncalls, args, stack>>

NextCalc == CallGetNextTime

SpecCalc == InitCalc /\ [][NextCalc]_vars

(***************************************************************************)
(* SpecRecon: the clean and add handlers of one host, called twice in any  *)
(* combination on any declared set and any live set of one kind.  The log  *)
(* holds the operations of the last call.                                  *)
(***************************************************************************)
SubSeqs(base) == { SelectSeq(base, LAMBDA e : e \in S) : S \in SUBSET Range(base) }

DeclaredUsers ==
    { <<>>,
      <<[Login |-> "u1", Pass |-> "", Key |-> "k1"]>>,
      <<[Login |-> "u1", Pass |-> "", Key |-> "k1"],
        [Login |-> "u2", Pass |-> "p2", Key |-> ""]>> }

DeclaredGroups == { <<>>, <<"g1">>, <<"g1", "g2">>, <<"g1", "g1">> }

DeclaredSchedules == { <<>>, <<"s1">>, <<"s1", "s2">> }

InitRecon ==
    /\ \E dev \in Devices :
          \/ \E live \in SubSeqs(<<"admin", "op", "u1", "x">>) :
                initial = [h \in Hosts |-> [dev EXCEPT !.users = live]]
          \/ \E live \in SubSeqs(<<"g1", "g2", "gx">>) :
                initial = [h \in Hosts |-> [dev EXCEPT !.groups = live]]
          \/ \E live \in SubSeqs(<<"s1", "s2", "sx">>) :
                initial = [h \in Hosts |-> [dev EXCEPT !.schedules = live]]
    /\ \E U \in DeclaredUsers, A \in {<<>>, <<"op">>},
          G \in DeclaredGroups, S \in DeclaredSchedules :
          /\ \/ G = <<"g1">> /\ S = <<"s1">>
             \/ U = <<>> /\ A = <<"op">> /\ S = <<"s1">>
             \/ U = <<>> /\ A = <<"op">> /\ G = <<"g1">>
          /\ host = [h \in Hosts |->
                       [NewHost(h, initial[h]) EXCEPT
                           !.Users = U, !.UsersAllowed = A,
                           !.Groups = G, !.Schedules = S]]
    /\ params = Params
    /\ call = "none"
    /\ ncalls = 0
    /\ calc = NoCalc
    /\ args = NoArgs
    /\ stack = [h \in Hosts |-> 1]

ReconCall(h, name, outcomes) ==
    /\ ncalls < 2
    /\ \E t \in outcomes : host' = [host EXCEPT ![h] = t]
    /\ call' = name
    /\ ncalls' = ncalls + 1
    /\ UNCHANGED <<initial, params, calc, args, stack>>

Fresh(s) == [s EXCEPT !.log = <<>>]

CallCleanUsers(h) == ReconCall(h, "CleanUsers", CleanUsers(Fresh(host[h])))

CallCleanGroups(h) == ReconCall(h, "CleanGroups", CleanGroups(Fresh(host[h])))

CallCleanSchedules(h) == ReconCall(h, "CleanSchedules", CleanSchedules(Fresh(host[h])))

CallAddGroups(h) == ReconCall(h, "AddGroups", AddGroups(Fresh(host[h])))

CallAddUsers(h) == ReconCall(h, "AddUsers", AddUsers(Fresh(host[h])))

CallAddSchedules(h) == ReconCall(h, "AddSchedules", AddSchedules(Fresh(host[h])))

NextRecon ==
    \E h \in Hosts :
        \/ CallCleanUsers(h)
        \/ CallCleanGroups(h)
        \/ CallCleanSchedules(h)
        \/ CallAddGroups(h)
        \/ CallAddUsers(h)
        \/ CallAddSchedules(h)

SpecRecon == InitRecon /\ [][NextRecon]_vars

(***************************************************************************)
(* SpecImport: ImportSshKey called once for the first declared user, with  *)
(* any number of attempts and either delay, on a device that holds the     *)
(* user or not and the uploaded key file or not, over a connected or an    *)
(* unconnected control-plane handle.                                       *)
(***************************************************************************)
InitImport ==
    /\ initial \in [Hosts -> Devices]
    /\ \E file \in {"none", "partial", "full"}, conn \in BOOLEAN :
          host = [h \in Hosts |->
                     [NewHost(h, initial[h]) EXCEPT
                         !.files["k1"] = file,
                         !.connections.api = conn,
                         !.open.api = IF conn THEN 1 ELSE 0]]
    /\ params = Params
    /\ call = "none"
    /\ ncalls = 0
    /\ calc = NoCalc
    /\ args \in [user : {LoadConfig(h).Users[1] : h \in Hosts},
                 delay : {0, ImportDelay},
                 attempts : 0..MaxAttempts]
    /\ stack = [h \in Hosts |-> 1]

CallImportSshKey(h) ==
    /\ ncalls = 0
    /\ \E t \in ImportSshKey(host[h], args.user, args.delay, args.attempts) :
          host' = [host EXCEPT ![h] = t]
    /\ call' = "ImportSshKey"
    /\ ncalls' = 1
    /\ UNCHANGED <<initial, params, calc, args, stack>>

NextImport == \E h \in Hosts : CallImportSshKey(h)

SpecImport == InitImport /\ [][NextImport]_vars

(***************************************************************************)
(* SpecTransfer: DownloadFolder called up to MaxTransfers times, with the  *)
(* delete flag set or not, on a device whose folder is flat, nested, empty *)
(* or nested beside a directory whose name is the concatenation of two     *)
(* others; the two directory arguments end in a separator or not.  Every   *)
(* operation may fail.                                                     *)
(***************************************************************************)
Trees ==
    { \* an empty folder
      {[path |-> <<"a">>, isDir |-> TRUE]},
      \* a flat folder
      {[path |-> <<"a">>, isDir |-> TRUE],
       [path |-> <<"a", "f1">>, isDir |-> FALSE],
       [path |-> <<"a", "f2">>, isDir |-> FALSE]},
      \* a/file1 and a/b/file2
      {[path |-> <<"a">>, isDir |-> TRUE],
       [path |-> <<"a", "f1">>, isDir |-> FALSE],
       [path |-> <<"a", "b">>, isDir |-> TRUE],
       [path |-> <<"a", "b", "f2">>, isDir |-> FALSE]},
      \* a/b/file2 beside ab/file1
      {[path |-> <<"a">>, isDir |-> TRUE],
       [path |-> <<"a", "b">>, isDir |-> TRUE],
       [path |-> <<"a", "b", "f2">>, isDir |-> FALSE],
       [path |-> <<"ab">>, isDir |-> TRUE],
       [path |-> <<"ab", "f1">>, isDir |-> FALSE]} }

InitTransfer ==
    /\ initial \in [Hosts -> { [users |-> <<"admin">>, groups |-> <<>>,
                                schedules |-> <<>>, tree |-> t] : t \in Trees }]
    /\ \E dirSrc \in {<<"a">>, <<"a", "/">>}, dirDst \in {<<"l">>, <<"l", "/">>} :
          host = [h \in Hosts |->
                     [NewHost(h, initial[h]) EXCEPT
                         !.BackupFolder = dirSrc, !.dirBackup = dirDst]]
    /\ params = Params
    /\ call = "none"
    /\ ncalls = 0
    /\ calc = NoCalc
    /\ args = NoArgs
    /\ stack = [h \in Hosts |-> 1]

CallDownloadFolder(h) ==
    /\ ncalls < MaxTransfers
    /\ \E delete \in BOOLEAN :
          /\ \E t \in DownloadFolder(Fresh(host[h]), host[h].BackupFolder,
                                      host[h].dirBackup, delete) :
                host' = [host EXCEPT ![h] = t]
          /\ args' = [delete |-> delete]
    /\ call' = "DownloadFolder"
    /\ ncalls' = ncalls + 1
    /\ UNCHANGED <<initial, params, calc, stack>>

NextTransfer == \E h \in Hosts : CallDownloadFolder(h)

SpecTransfer == InitTransfer /\ [][NextTransfer]_vars

(***************************************************************************)
(* SpecArtifact: MakeExport and MakeBackup called up to MaxArtifacts times *)
(* with one path (plain, with a doubled separator, without a directory or  *)
(* nested), on a device without the directory, with it, or with a file of  *)
(* the directory's name, which makes the device reject the creation.       *)
(***************************************************************************)
InitArtifact ==
    /\ initial \in [Hosts -> { [users |-> <<"admin">>, groups |-> <<>>,
                                schedules |-> <<>>, tree |-> t]
                               : t \in { {},
                                         {[path |-> <<"backup">>, isDir |-> TRUE]},
                                         {[path |-> <<"backup">>, isDir |-> FALSE]} } }]
    /\ host = [h \in Hosts |-> NewHost(h, initial[h])]
    /\ params = Params
    /\ call = "none"
    /\ ncalls = 0
    /\ calc = NoCalc
    /\ args \in [path : { <<"backup", "/", "cfg">>,
                          <<"backup", "/", "/", "cfg">>,
                          <<"cfg">>,
                          <<"backup", "/", "a", "/", "cfg">> }]
    /\ stack = [h \in Hosts |-> 1]

ArtifactCall(h, name, outcomes) ==
    /\ ncalls < MaxArtifacts
    /\ \E t \in outcomes : host' = [host EXCEPT ![h] = t]
    /\ call' = name
    /\ ncalls' = ncalls + 1
    /\ UNCHANGED <<initial, params, calc, args, stack>>

CallMakeExport(h) ==
    ArtifactCall(h, "MakeExport", MakeExport(Fresh(host[h]), args.path))

CallMakeBackup(h) ==
    ArtifactCall(h, "MakeBackup", MakeBackup(Fresh(host[h]), args.path))

NextArtifact ==
    \E h \in Hosts :
        \/ CallMakeExport(h)
        \/ CallMakeBackup(h)

SpecArtifact == InitArtifact /\ [][NextArtifact]_vars

(***************************************************************************)
(* Properties.                                                             *)
(***************************************************************************)
Sessions == {"api", "sftp", "ssh"}

\* Control-plane commands are logged under their path.
IsQuery(e) == e.op \in {"/user/print", "/user/group/print", "/system/scheduler/print"}
IsCreate(e) == e.op \in {"/user/add", "/user/group/add", "/system/scheduler/add"}
IsRemove(e) == e.op \in {"/user/remove", "/user/group/remove", "/system/scheduler/remove"}
IsImport(e) == e.op = "/user/ssh-keys/import"
IsCommand(e) == IsQuery(e) \/ IsCreate(e) \/ IsRemove(e) \/ IsImport(e)

AllOk(log) == \A i \in 1..Len(log) : log[i].ok

\* C1: in SpecConn (any sequence of GetConnectionAPI / GetConnectionSSH /
\* GetConnectionSFTP / Disconnect calls, each dial free to fail) the
\* file-transfer handle is connected only if the shell handle is, a call of
\* GetConnectionAPI leaves the shell and file-transfer handles as they were,
\* and a call of GetConnectionSSH or GetConnectionSFTP leaves the
\* control-plane handle as it was.
C1_SessionOrder ==
    /\ [](\A h \in Hosts : host[h].connections.sftp => host[h].connections.ssh)
    /\ [][\A h \in Hosts :
            /\ call' = "GetConnectionAPI" =>
                  /\ host'[h].connections.ssh = host[h].connections.ssh
                  /\ host'[h].connections.sftp = host[h].connections.sftp
            /\ call' \in {"GetConnectionSSH", "GetConnectionSFTP"} =>
                  host'[h].connections.api = host[h].connections.api]_vars

\* A failed control-plane dial made while the file-transfer session is open.
C1_Witness ==
    \E h \in Hosts :
        /\ call = "GetConnectionAPI"
        /\ host[h].err
        /\ host[h].connections.sftp
        /\ host[h].connections.ssh
        /\ ~host[h].connections.api

\* C2: in every state of every cycle, for every host and session type at
\* most one session is open, it is open iff the handle is connected (no dial
\* is made over a connected handle and no handle is dropped unclosed), and a
\* dial that has just failed leaves its handle unconnected.
C2_OneSessionPerType ==
    \A h \in Hosts :
        /\ \A x \in Sessions :
              /\ host[h].open[x] <= 1
              /\ host[h].connections[x] <=> host[h].open[x] = 1
        /\ LET log == host[h].log IN
           \A x \in Sessions :
              (/\ Len(log) > 0
               /\ log[Len(log)].op = "dial-" \o x
               /\ ~log[Len(log)].ok) => ~host[h].connections[x]

\* A cycle after a failed one that issues a command over the handle the
\* failed cycle left connected, without dialling.
C2_Witness ==
    \E h \in Hosts :
        /\ host[h].aborted
        /\ host[h].pc = "CleanGroups"
        /\ host[h].connections.api
        /\ \E i \in 1..Len(host[h].log) : IsQuery(host[h].log[i])
        /\ \A i \in 1..Len(host[h].log) : host[h].log[i].op # "dial-api"

\* C3: when Run starts its sleep after a failed cycle, all three handles of
\* the host are unconnected.
C3_TornDownAfterFailure ==
    \A h \in Hosts :
        (host[h].pc = "Sleep" /\ host[h].err) =>
            \A x \in Sessions : ~host[h].connections[x]

\* C4: when Run starts its sleep after a successful cycle, all three handles
\* of the host are unconnected.
C4_DisconnectedAfterSuccess ==
    \A h \in Hosts :
        (host[h].pc = "Sleep" /\ ~host[h].err) =>
            \A x \in Sessions : ~host[h].connections[x]

\* A successful cycle that closed all three sessions.
C4_Witness ==
    \E h \in Hosts :
        /\ host[h].pc = "Sleep"
        /\ ~host[h].err
        /\ \A x \in Sessions :
              \E i \in 1..Len(host[h].log) : host[h].log[i].op = "close-" \o x

Aligned(next, start, delay) == (next - start) % delay = 0

Logins(users) == { users[i].Login : i \in 1..Len(users) }

\* The host's live state matches its declared subset.
Converged(s) ==
    /\ Range(s.Groups) \subseteq Range(s.groups)
    /\ Logins(s.Users) \subseteq Range(s.users)
    /\ Range(s.Schedules) \subseteq Range(s.schedules)
    /\ Range(s.groups) \subseteq Range(s.Groups)
    /\ Range(s.schedules) \subseteq Range(s.Schedules)
    /\ Range(s.users) \subseteq {s.Login} \cup Range(s.UsersAllowed) \cup Logins(s.Users)

\* C6: when a cycle has completed successfully, every declared group, login
\* and schedule is live, no live group or schedule is undeclared and no live
\* login is outside the allow-list.
C6_ConvergedAfterSuccess ==
    \A h \in Hosts :
        (host[h].pc = "Sleep" /\ ~host[h].err) => Converged(host[h])

\* C7: in a cycle, no control-plane command follows a failed query, create
\* or remove command, and a cycle in which such a command failed returns an
\* error to Run.
C7_FailureAborts ==
    \A h \in Hosts :
        LET log == host[h].log
            Failed(i) == (IsQuery(log[i]) \/ IsCreate(log[i]) \/ IsRemove(log[i]))
                         /\ ~log[i].ok
        IN /\ \A i \in 1..Len(log) : \A j \in 1..Len(log) :
                 (i < j /\ Failed(i)) => ~IsCommand(log[j])
           /\ (host[h].pc = "Sleep" /\ \E i \in 1..Len(log) : Failed(i))
                 => host[h].err

\* The whole of StartManager after the parameter lookup, and the cycle in
\* which every dial, command and transfer call succeeds.
FailureFree(S) == { t \in S : ~t.err /\ AllOk(t.log) }

FailureFreeCycle(s) ==
    LET a == FailureFree(CleanUsers(Substituted(s, Params)))
        b == UNION { FailureFree(CleanGroups(t)) : t \in a }
        c == UNION { FailureFree(CleanSchedules(t)) : t \in b }
        d == UNION { FailureFree(AddGroups(t)) : t \in c }
        e == UNION { FailureFree(AddUsers(t)) : t \in d }
        f == UNION { FailureFree(MakeBackupFolder(t)) : t \in e }
        g == UNION { FailureFree(AddSchedules(t)) : t \in f }
        k == UNION { FailureFree(DownloadFolder(t, t.BackupFolder, t.dirBackup, TRUE)) : t \in g }
    IN UNION { FailureFree(Disconnect(t)) : t \in k }

Device(s) ==
    [users |-> Range(s.users), groups |-> Range(s.groups),
     schedules |-> Range(s.schedules), keys |-> s.keys, files |-> s.files,
     tree |-> s.tree]

\* C8: a cycle in which every dial and command succeeds, made after a cycle
\* that aborted, leaves the device as a failure-free first cycle would have
\* left it (the imported keys included).
C8_NextCycleCorrects ==
    \A h \in Hosts :
        (/\ host[h].pc = "Sleep"
         /\ host[h].aborted
         /\ ~host[h].err
         /\ AllOk(host[h].log))
        => \E t \in FailureFreeCycle(NewHost(h, initial[h])) :
              Device(host[h]) = Device(t)

\* The arguments of the commands op in a log, and how often arg occurs.
Args(log, op) == { log[i].arg : i \in {j \in 1..Len(log) : log[j].op = op} }

Count(log, op, arg) ==
    Cardinality({ i \in 1..Len(log) : log[i].op = op /\ log[i].arg = arg })

\* What a clean handler called in state s and returning in state t removed,
\* against the names it must keep.
CleanedExactly(live, keep, liveAfter, log, op, succeeded) ==
    /\ Args(log, op) \subseteq Range(live) \ keep
    /\ Range(live) \cap keep \subseteq Range(liveAfter)
    /\ succeeded =>
          /\ Args(log, op) = Range(live) \ keep
          /\ \A n \in Args(log, op) : Count(log, op, n) = 1
          /\ Range(liveAfter) = Range(live) \cap keep

\* C9: a call of CleanGroups / CleanSchedules in which every command
\* succeeds issues one remove command for exactly the live names that are not
\* declared, and a call of CleanUsers for exactly the live logins outside the
\* allow-list (host login, UsersAllowed, declared logins); whether or not
\* commands fail, no declared or allowed entry is removed.
C9_CleanExact ==
    [][\A h \in Hosts :
        LET s == host[h]
            t == host'[h]
            done == ~t.err /\ AllOk(t.log)
        IN /\ call' = "CleanUsers" =>
                 CleanedExactly(s.users,
                                {s.Login} \cup Range(s.UsersAllowed) \cup Logins(s.Users),
                                t.users,
                                t.log, "/user/remove", done)
           /\ call' = "CleanGroups" =>
                 CleanedExactly(s.groups, Range(s.Groups), t.groups,
                                t.log, "/user/group/remove", done)
           /\ call' = "CleanSchedules" =>
                 CleanedExactly(s.schedules, Range(s.Schedules), t.schedules,
                                t.log, "/system/scheduler/remove", done)]_vars

\* CleanUsers has removed the stray login and kept the host login, the
\* extra-allowed login and the declared login.
C9_Witness ==
    \E h \in Hosts :
        /\ call = "CleanUsers"
        /\ ~host[h].err
        /\ Args(host[h].log, "/user/remove") = {"x"}
        /\ host[h].users = <<"admin", "op", "u1">>
        /\ host[h].UsersAllowed = <<"op">>

\* C10: when an add handler is run twice in succession, no name receives
\* more than one creation command over the two runs, and the second run
\* issues no creation command for a name that is live when it starts.
\* (Stated for a first run that returned no error: a second run made after
\* an aborted first run is a retry, and is left out of the claim's scope.)
C10_NoDuplicateCreate ==
    [][\A h \in Hosts :
        \A run \in {[name |-> "AddGroups", op |-> "/user/group/add"],
                    [name |-> "AddUsers", op |-> "/user/add"],
                    [name |-> "AddSchedules", op |-> "/system/scheduler/add"]} :
            (call = run.name /\ call' = run.name /\ ~host[h].err) =>
                LET first == host[h].log
                    second == host'[h].log
                    live == Range(host[h].users) \cup Range(host[h].groups)
                                \cup Range(host[h].schedules)
                IN /\ \A n \in Args(first, run.op) \cup Args(second, run.op) :
                         Count(first \o second, run.op, n) <= 1
                   /\ Args(second, run.op) \cap live = {}]_vars

\* Commands and file-transfer calls that change the device.
IsMutating(e) ==
    \/ IsCreate(e) \/ IsRemove(e) \/ IsImport(e)
    \/ e.op \in {"sftp-mkdir", "sftp-create", "sftp-remove"}

\* C11: when the control-plane dial fails at the start of a cycle (the first
\* operation of the cycle is a failed dial of the control plane), the cycle
\* issues no command and no file-transfer call that changes the device, no
\* later step is started, and Run sleeps for Task.Expired; GetNextTime is
\* not consulted.
C11_DialFailureBacksOff ==
    \A h \in Hosts :
        LET log == host[h].log
        IN (Len(log) >= 1 /\ log[1].op = "dial-api" /\ ~log[1].ok)
           => /\ \A i \in DOMAIN log : ~IsMutating(log[i])
              /\ host[h].pc = "Sleep"
              /\ host[h].steps = <<[name |-> "CleanUsers", ok |-> FALSE]>>
              /\ host[h].delay = host[h].Task.Expired
              /\ host[h].next = 0

C11_Witness ==
    \E h \in Hosts :
        /\ host[h].pc = "Sleep"
        /\ Len(host[h].log) = 1
        /\ host[h].log[1].op = "dial-api"
        /\ ~host[h].log[1].ok
        /\ host[h].delay = host[h].Task.Expired

\* C12: the sleep that follows a cycle depends on the cycle's outcome only:
\* if one of its steps returned an error Run sleeps for exactly Task.Expired,
\* and if every step returned success Run sleeps until an instant aligned to
\* the anchor, at most one period away.
C12_SleepByOutcome ==
    \A h \in Hosts :
        host[h].pc = "Sleep"
        => IF \E i \in DOMAIN host[h].steps : ~host[h].steps[i].ok
           THEN host[h].delay = host[h].Task.Expired
           ELSE /\ Aligned(host[h].now + host[h].delay,
                           host[h].Task.Start, host[h].Task.Delay)
                /\ host[h].now + host[h].delay = host[h].next
                /\ host[h].delay <= host[h].Task.Delay

\* A cycle that failed in its last step, the backup transfer.
C12_Witness ==
    \E h \in Hosts :
        /\ host[h].pc = "Sleep"
        /\ Len(host[h].steps) = 8
        /\ ~host[h].steps[8].ok
        /\ host[h].delay = host[h].Task.Expired

\* The steps of StartManager, in the order of its code.
StepOrder ==
    <<"CleanUsers", "CleanGroups", "CleanSchedules", "AddGroups", "AddUsers",
      "MakeBackupFolder", "AddSchedules", "DownloadFolder">>

\* C13: the steps started in a cycle are a prefix of StepOrder (so they start
\* in that order and none runs twice), every step but the last started one
\* returned success, and the step about to start is the next of StepOrder.
C13_StepOrder ==
    \A h \in Hosts :
        LET st == host[h].steps
        IN /\ Len(st) <= Len(StepOrder)
           /\ \A i \in DOMAIN st :
                 /\ st[i].name = StepOrder[i]
                 /\ i < Len(st) => st[i].ok
           /\ host[h].pc \in Range(StepOrder)
              => /\ host[h].pc = StepOrder[Len(st) + 1]
                 /\ \A i \in DOMAIN st : st[i].ok

C13_Witness ==
    \E h \in Hosts :
        /\ Len(host[h].steps) = Len(StepOrder)
        /\ \A i \in DOMAIN host[h].steps : host[h].steps[i].ok
        /\ host[h].pc = "Sleep"

\* The order in which Disconnect visits the handles.
CloseOrder == <<"api", "sftp", "ssh">>

\* C19: a call of Disconnect, made with any reachable combination of
\* connected and unconnected handles, issues one close for each connected
\* handle and none for the others, in the order api, sftp, ssh; it leaves
\* the three handles unconnected whether the closes succeed or fail, and it
\* changes no other field of the host (log and session count aside).
C19_DisconnectClosesOpen ==
    [][\A h \in Hosts :
          call' = "Disconnect" =>
            LET before == host[h].connections
                closes == SubSeq(host'[h].log, Len(host[h].log) + 1, Len(host'[h].log))
                expected == SelectSeq(CloseOrder, LAMBDA x : before[x])
            IN /\ Len(closes) = Len(expected)
               /\ \A i \in DOMAIN closes : closes[i].op = "close-" \o expected[i]
               /\ \A x \in Sessions : ~host'[h].connections[x]
               /\ [host'[h] EXCEPT !.log = host[h].log,
                                   !.connections = host[h].connections,
                                   !.open = host[h].open] = host[h]]_vars

\* A Disconnect of three connected handles whose first close failed.
C19_Witness ==
    \E h \in Hosts :
        LET log == host[h].log
            n == Len(log)
        IN /\ call = "Disconnect"
           /\ n >= 3
           /\ log[n - 2].op = "close-api" /\ ~log[n - 2].ok
           /\ log[n - 1].op = "close-sftp"
           /\ log[n].op = "close-ssh"
           /\ \A x \in Sessions : ~host[h].connections[x]

\* The positions of the import commands in a log.
Imports(log) == {i \in DOMAIN log : IsImport(log[i])}

NoFailedDial(log) == \A i \in DOMAIN log : log[i].op = "dial-api" => log[i].ok

\* C16: ImportSshKey called with attempts = N never issues more than N
\* import commands, sleeps the given delay before each of them, and when
\* every import command fails (the control-plane handle being available) it
\* issues exactly N of them and returns an error.
C16_RetryExhausted ==
    \A h \in Hosts :
        call = "ImportSshKey" =>
            LET log == host[h].log
            IN /\ Cardinality(Imports(log)) <= args.attempts
               /\ \A i \in Imports(log) :
                     /\ i > 1
                     /\ log[i - 1].op = "sleep"
                     /\ log[i - 1].arg = ToString(args.delay)
               /\ Cardinality({i \in DOMAIN log : log[i].op = "sleep"})
                     = Cardinality(Imports(log))
               /\ (NoFailedDial(log) /\ \A i \in Imports(log) : ~log[i].ok)
                  => /\ Cardinality(Imports(log)) = args.attempts
                     /\ host[h].err

\* The most attempts of the model, all of them failed.
C16_Witness ==
    \E h \in Hosts :
        /\ call = "ImportSshKey"
        /\ args.attempts = MaxAttempts
        /\ Cardinality(Imports(host[h].log)) = MaxAttempts
        /\ \A i \in Imports(host[h].log) : ~host[h].log[i].ok
        /\ host[h].err

\* C17: a successful import command is the last operation ImportSshKey
\* issues; ImportSshKey returns success iff one of its import commands
\* succeeded (one of the first N, by C16); and a failed import command does
\* not end the loop: a call whose last import failed, the control-plane
\* handle being available, has used all N attempts.
C17_FirstSuccessEnds ==
    \A h \in Hosts :
        call = "ImportSshKey" =>
            LET log == host[h].log
            IN /\ \A i \in Imports(log) : log[i].ok => i = Len(log)
               /\ ~host[h].err <=> \E i \in Imports(log) : log[i].ok
               /\ (/\ NoFailedDial(log)
                   /\ Imports(log) # {} => ~log[Len(log)].ok)
                  => Cardinality(Imports(log)) = args.attempts

\* Success at the third attempt of four: two failed imports did not end the
\* loop and the fourth attempt was not made.
C17_Witness ==
    \E h \in Hosts :
        /\ call = "ImportSshKey"
        /\ args.attempts = 4
        /\ Cardinality(Imports(host[h].log)) = 3
        /\ host[h].log[Len(host[h].log)].ok
        /\ ~host[h].err

\* No operation of the log met a fault: each one succeeded, or was rejected
\* because of the state of the device.
NoFault(log) == \A i \in DOMAIN log : log[i].ok \/ log[i].rejected

\* The files of a tree that lie under the directory root.
FilesUnder(tree, root) ==
    { e \in tree : /\ ~e.isDir
                   /\ Len(e.path) > Len(root)
                   /\ SubSeq(e.path, 1, Len(root)) = root }

\* C14: a first call DownloadFolder(root, localDir, TRUE) in which no
\* operation meets a fault returns success, leaves a complete local copy of
\* every remote file of relative path p under root at localDir/p, and
\* leaves no file under root on the device.
C14_MirrorsTree ==
    \A h \in Hosts :
        (/\ call = "DownloadFolder"
         /\ ncalls = 1
         /\ args.delete
         /\ NoFault(host[h].log))
        => LET root == Resolve(host[h].BackupFolder)
               localDir == Resolve(host[h].dirBackup)
           IN /\ ~host[h].err
              /\ \A e \in FilesUnder(initial[h].tree, root) :
                    LET p == SubSeq(e.path, Len(root) + 1, Len(e.path))
                    IN /\ localDir \o p \in DOMAIN host[h].local
                       /\ host[h].local[localDir \o p]
                             = [from |-> e.path, state |-> "full"]
              /\ FilesUnder(host[h].tree, root) = {}

\* C15: every file the device held at the start is still on the device or
\* has a complete local copy, in every state, whatever failed; a remote
\* file is removed only right after its copy, the sync of the local file
\* and the close of the remote one succeeded; and a call made without the
\* delete flag issues no remove and leaves the files of the device as they
\* were.
C15_CopyThenDelete ==
    /\ [](\A h \in Hosts :
            /\ \A e \in initial[h].tree :
                  ~e.isDir =>
                     \/ e \in host[h].tree
                     \/ \E l \in DOMAIN host[h].local :
                           host[h].local[l] = [from |-> e.path, state |-> "full"]
            /\ \A i \in DOMAIN host[h].log :
                  host[h].log[i].op = "sftp-remove" =>
                     /\ i > 3
                     /\ host[h].log[i - 3].op = "io-copy" /\ host[h].log[i - 3].ok
                     /\ host[h].log[i - 2].op = "os-sync" /\ host[h].log[i - 2].ok
                     /\ host[h].log[i - 1].op = "sftp-close" /\ host[h].log[i - 1].ok)
    /\ [][\A h \in Hosts :
            (call' = "DownloadFolder" /\ ~args'.delete) =>
               /\ host'[h].tree = host[h].tree
               /\ \A i \in DOMAIN host'[h].log : host'[h].log[i].op # "sftp-remove"]_vars

\* A call with the flag set that removed a remote file and then failed to
\* close the local one: the file is gone from the device, its copy is full.
C15_Witness ==
    \E h \in Hosts :
        LET log == host[h].log
        IN /\ call = "DownloadFolder"
           /\ args.delete
           /\ host[h].err
           /\ Len(log) > 1
           /\ log[Len(log)].op = "os-close" /\ ~log[Len(log)].ok
           /\ log[Len(log) - 1].op = "sftp-remove" /\ log[Len(log) - 1].ok
           /\ \E e \in initial[h].tree : ~e.isDir /\ e \notin host[h].tree

\* C18: the loop of a host never terminates: in every reachable state the
\* goroutine of every host is alive, inside a cycle or asleep before the
\* next one (so that, every step and sleep returning, the next cycle starts
\* from the first step).
C18_LoopNeverEnds ==
    \A h \in Hosts :
        /\ host[h].pc # "Fatal"
        /\ host[h].pc = "Sleep" => ENABLED RunCall(h)

C21_DeclaredStateReadOnly ==
    /\ params = Params
    /\ "{host.name}" \in Range(params.dir_backup)
    /\ "{host.ip}" \in Range(params.dir_backup)
    /\ \A h \in Hosts :
          \A f \in DOMAIN LoadConfig(h) : host[h][f] = LoadConfig(h)[f]

\* A second cycle has begun after a cycle in which the placeholders were
\* replaced for the host and the user without a password was created with
\* a generated one.
C21_Witness ==
    \E h \in Hosts :
        /\ host[h].dirBackup = <<"store", "/", h, "/", "ip-" \o h>>
        /\ "u1" \in DOMAIN host[h].passwords
        /\ host[h].passwords["u1"] = GeneratedPass
        /\ host[h].pc = "CleanUsers"
        /\ host[h].aborted

\* C22: a call of MakeExport or MakeBackup creates the directory of the
\* path before it issues its command and issues the command only after the
\* creation succeeded; it returns without error iff the creation and the
\* command both succeeded, and then the returned path is the given path
\* (cleaned) followed by ".rsc" for MakeExport and ".backup" for
\* MakeBackup; with an error the returned path is empty.
C22_ArtifactPath ==
    \A h \in Hosts :
        call \in {"MakeExport", "MakeBackup"} =>
            LET log == host[h].log
                cmd == IF call = "MakeExport" THEN "/export" ELSE "/system/backup/save"
                suffix == IF call = "MakeExport" THEN ".rsc" ELSE ".backup"
                made == { i \in DOMAIN log : log[i].op = "sftp-mkdir" }
                run == { i \in DOMAIN log : log[i].op = cmd }
                ret == host[h].ret
            IN /\ Cardinality(made) <= 1 /\ Cardinality(run) <= 1
               /\ \A i \in made : log[i].arg = Str(Dir(args.path))
               /\ \A i \in run : \E j \in made : j < i /\ log[j].ok
               /\ \A i \in DOMAIN log :
                     log[i].op \in {"/export", "/system/backup/save"} => i \in run
               /\ ~host[h].err <=> /\ \E j \in made : log[j].ok
                                   /\ \E i \in run : log[i].ok
               /\ host[h].err => ret = <<>>
               /\ ~host[h].err =>
                     /\ Len(ret) > 1
                     /\ ret[Len(ret)] = suffix
                     /\ Resolve(SubSeq(ret, 1, Len(ret) - 1)) = Resolve(args.path)

\* A backup saved under a path with a doubled separator.
C22_Witness ==
    \E h \in Hosts :
        /\ call = "MakeBackup"
        /\ ~host[h].err
        /\ args.path = <<"backup", "/", "/", "cfg">>
        /\ Str(host[h].ret) = "backup/cfg.backup"

\* A cycle that ran all its steps and returned no error.
CycleSucceeded(s) ==
    /\ s.pc = "Sleep"
    /\ ~s.err
    /\ Len(s.steps) = Len(StepOrder)

\* C23: a host whose cycle failed on a connected session that broke during
\* an operation eventually completes a successful cycle, every later dial
\* and every operation on a session dialled later succeeding.
C23_RecoversFromBrokenSession ==
    \A h \in Recovering :
        (/\ host[h].pc = "Sleep"
         /\ host[h].err
         /\ \E x \in Sessions : host[h].connections[x] /\ host[h].broken[x])
        ~> CycleSucceeded(host[h])

====
